---- MODULE Spec2Model ----
(***************************************************************************)
(* The client side of the permuter@home protocol: net/common.py (Port,     *)
(* socket_read_fixed, json_prop) and net/client.py (Connection).           *)
(*                                                                         *)
(* Spec          one Connection.run thread against a peer that may answer   *)
(*               every receive with anything (or close the stream).        *)
(* MultiSpec     two Connection.run threads on one task queue and one      *)
(*               feedback queue, each against a peer of its own.           *)
(* TeardownSpec  one Connection.run thread whose finally block may fail.   *)
(* PortSpec      two Port objects sharing one box over a socket pair.      *)
(*                                                                         *)
(* The box (nacl.public.Box) is a library object: a frame decrypts when it *)
(* was encrypted under the box with the nonce the receiver presents and    *)
(* was not altered.  In Spec the peer is the environment, so whether a     *)
(* frame decrypts is an input of each receive.                             *)
(***************************************************************************)
EXTENDS Integers, Sequences, FiniteSets, TLC

\* ---------------------------------------------------------------- bounds
MaxPermuters == 2
MaxTasks == 3
MaxLoopReceives == 4
MaxPortOps == 5
MaxSharedTasks == 3

\* ------------------------------------------------------- program constants
\* 7 + 32 + 64, the size of the server's handshake reply
HandshakeReplyLen == 103
\* the size of a frame's length prefix, struct.pack(">Q", ...)
LengthPrefixLen == 8
\* the pad bytes that ">24xQ" puts before the counter
NoncePadLen == 24
\* the bytes of the Q field of ">24xQ"
NonceCounterLen == 8
\* the step of both nonce counters
NonceStep == 2

\* ------------------------------------------------------------ JSON values
\* A JSON value after json.loads: its Python type, and its value as a number
\* (n) or a string (s).  "absent" is a key the object does not have.
JV(t, n, s) == [t |-> t, n |-> n, s |-> s]
Absent == JV("absent", 0, "")
JBool(b) == JV("bool", IF b THEN 1 ELSE 0, "")
JInt(n) == JV("int", n, "")
JFloat(n) == JV("float", n, "")
JStr(s) == JV("str", 0, s)
JList == JV("list", 0, "")
JDict == JV("dict", 0, "")

\* isinstance(v, t): bool is a subclass of int
isinstance(v, t) ==
    IF t = "int" THEN v.t \in {"int", "bool"} ELSE v.t = t

\* obj.get(prop) == True: True equals the numbers 1 and 1.0
EqualsTrue(v) == v.t \in {"bool", "int", "float"} /\ v.n = 1

\* ------------------------------------------------------------- exceptions
Exc(cls, text) == [cls |-> cls, text |-> text]
NoExc == Exc("", "")
Raised(e) == e.cls # ""

\* The classes of the model that derive from EOFError
IsEOFError(e) == e.cls = "EOFError"

\* socket_read_fixed(sock, n) when the peer closes after `got` bytes
socket_read_fixed(got, n) ==
    IF got < n THEN Exc("Exception", "eof") ELSE NoExc

\* json_prop(obj, prop, t): obj is a message record, prop one of its keys
json_prop(obj, prop, t) ==
    IF obj.shape # "dict" THEN Exc("AttributeError", "get")
    ELSE IF ~isinstance(obj[prop], t) THEN Exc("ValueError", "Member " \o prop)
    ELSE NoExc

\* ------------------------------------------------------------------- Port
\* Byte i (0 = least significant) of n
RECURSIVE ByteOf(_, _)
ByteOf(n, i) == IF i = 0 THEN n % 256 ELSE ByteOf(n \div 256, i - 1)

\* struct.pack(">24xQ", n): pad bytes, then n as 8 big-endian bytes
PackNonce(n) ==
    [i \in 1..(NoncePadLen + NonceCounterLen) |->
        IF i <= NoncePadLen THEN 0
        ELSE ByteOf(n, NoncePadLen + NonceCounterLen - i)]

\* Port.__init__
Port_init(is_client) ==
    [send_nonce |-> IF is_client THEN 0 ELSE 1,
     receive_nonce |-> IF is_client THEN 1 ELSE 0]
NoPort == [send_nonce |-> -1, receive_nonce |-> -1]

\* (mutant) the counters advance by one
NextNonceByOne(n) == n + 1

\* self._send_nonce += 2 / self._receive_nonce += 2
NextNonce(n) == n + NonceStep

\* Port.send: the port after the call (the counter moves before encrypt and
\* sendall, so also when sendall raises)
Port_send(p) == [p EXCEPT !.send_nonce = NextNonce(p.send_nonce)]

\* A frame on the wire as a receive finds it: hdr bytes of the length prefix
\* and body of the `length` ciphertext bytes arrive before the peer closes;
\* good says whether the box decrypts it under the receiver's nonce; plain
\* is the plaintext then.
Frame(hdr, length, body, good, plain) ==
    [hdr |-> hdr, length |-> length, body |-> body, good |-> good, plain |-> plain]

\* (mutant) the outcome of decrypt is not looked at
Port_receive_exc_unchecked(f) ==
    IF Raised(socket_read_fixed(f.hdr, LengthPrefixLen))
        THEN socket_read_fixed(f.hdr, LengthPrefixLen)
    ELSE socket_read_fixed(f.body, f.length)

\* Port.receive: the exception it raises, if any
Port_receive_exc(f) ==
    IF Raised(socket_read_fixed(f.hdr, LengthPrefixLen))
        THEN socket_read_fixed(f.hdr, LengthPrefixLen)
    ELSE IF Raised(socket_read_fixed(f.body, f.length))
        THEN socket_read_fixed(f.body, f.length)
    ELSE IF ~f.good THEN Exc("CryptoError", "Decryption failed")
    ELSE NoExc

\* Port.receive: the port after the call (the counter moves once both reads
\* are complete, before decrypt)
Port_receive(p, f) ==
    IF Raised(socket_read_fixed(f.hdr, LengthPrefixLen))
       \/ Raised(socket_read_fixed(f.body, f.length))
    THEN p
    ELSE [p EXCEPT !.receive_nonce = NextNonce(p.receive_nonce)]

\* ---------------------------------------------------------------- messages
\* A plaintext as the client reads it.  shape: what json.loads makes of it
\* ("dict", "other" for any other JSON value, "invalid" when it raises);
\* zlib: what zlib.decompress(...).decode makes of it ("" when it raises);
\* the other fields are the keys the client looks at; bases are the elements
\* of the perm_bases list.
EmptyObj ==
    [shape |-> "dict", zlib |-> "", type |-> Absent, min_priority |-> Absent,
     num_cpus |-> Absent, success |-> Absent, error |-> Absent,
     perm_bases |-> Absent, bases |-> <<>>, permuter |-> Absent,
     has_source |-> Absent, profiler |-> Absent, score |-> Absent,
     hash |-> Absent]
NotDict == [EmptyObj EXCEPT !.shape = "other"]
NotJson == [EmptyObj EXCEPT !.shape = "invalid"]
RawSource == [EmptyObj EXCEPT !.shape = "invalid", !.zlib = "int f() {}"]

\* The priorities a caller may declare and a server may require
Priorities == {3, 5}
MinPriorities == {5}
FloatStr(p) == IF p = 3 THEN "3.0" ELSE IF p = 5 THEN "5.0" ELSE "?"

CapsMsg(min_priority, num_cpus) ==
    [EmptyObj EXCEPT !.min_priority = min_priority, !.num_cpus = num_cpus]
CapsMsgs ==
    {CapsMsg(JFloat(m), JFloat(4)) : m \in MinPriorities}
    \cup {CapsMsg(JInt(5), JFloat(4)), CapsMsg(JFloat(5), Absent), NotDict, NotJson}

\* One element of perm_bases
BaseElem(shape, score, hash) ==
    [shape |-> shape, base_score |-> score, base_hash |-> hash]
BaseElems ==
    {BaseElem("dict", JInt(s), JStr(h)) : s \in {100, 101}, h \in {"abc", "xyz"}}
    \cup {BaseElem("dict", Absent, JStr("abc")),
          BaseElem("dict", JInt(100), Absent),
          BaseElem("other", Absent, Absent)}
BaseLists(n) ==
    UNION {[1..k -> BaseElems] : k \in {j \in {n - 1, n, n + 1} : j >= 0}}

CompileOk(bases) ==
    [EmptyObj EXCEPT !.success = JBool(TRUE), !.perm_bases = JList, !.bases = bases]
CompileFailed == [EmptyObj EXCEPT !.success = JBool(FALSE), !.error = JStr("cc: error")]
CompileMsgs(n) ==
    {CompileOk(b) : b \in BaseLists(n)}
    \cup {CompileFailed,
          [EmptyObj EXCEPT !.success = JBool(FALSE)],
          [EmptyObj EXCEPT !.success = JBool(TRUE)],
          EmptyObj, NotDict, NotJson}

LoopMsg(type) == [EmptyObj EXCEPT !.type = JStr(type)]
\* The result message whose outcome has score r
ResultMsg(r) ==
    [LoopMsg("result") EXCEPT !.permuter = JInt(0), !.profiler = JDict,
                              !.score = JInt(r), !.hash = JStr("h")]
ResultWithSource == [ResultMsg(1) EXCEPT !.has_source = JBool(TRUE)]
ResultError == [LoopMsg("result") EXCEPT !.permuter = JInt(0), !.error = JStr("boom")]
LoopMsgs ==
    {LoopMsg("finish"), LoopMsg("need_work"), ResultMsg(1), ResultMsg(2),
     ResultWithSource, ResultError,
     LoopMsg("bogus"), EmptyObj,
     [LoopMsg("result") EXCEPT !.permuter = JInt(0), !.profiler = JDict],
     NotDict}

\* What a receive may find on the wire: the stream closed inside the length
\* prefix or inside the ciphertext, a frame that does not decrypt, or a frame
\* that decrypts to one of `plains`.
FrameLen == 40
Frames(plains) ==
    {Frame(3, FrameLen, 0, FALSE, EmptyObj),
     Frame(LengthPrefixLen, FrameLen, 17, FALSE, EmptyObj),
     Frame(LengthPrefixLen, FrameLen, FrameLen, FALSE, EmptyObj)}
    \cup {Frame(LengthPrefixLen, FrameLen, FrameLen, TRUE, m) : m \in plains}

\* The frames of a peer that keeps to the protocol or closes the stream
FewPlains ==
    {EmptyObj, RawSource, CapsMsg(JFloat(5), JFloat(4)),
     CompileOk(<<BaseElem("dict", JInt(100), JStr("abc"))>>),
     LoopMsg("finish"), LoopMsg("need_work"), ResultWithSource}
FewFrames ==
    {Frame(3, FrameLen, 0, FALSE, EmptyObj)}
    \cup {Frame(LengthPrefixLen, FrameLen, FrameLen, TRUE, m) : m \in FewPlains}

\* json.loads(data)
json_loads_exc(m) ==
    IF m.shape = "invalid" THEN Exc("JSONDecodeError", "Expecting value") ELSE NoExc

\* Port.receive_json: receive, json.loads, the top-level check
receive_json_exc(f) ==
    IF Raised(Port_receive_exc(f)) THEN Port_receive_exc(f)
    ELSE IF Raised(json_loads_exc(f.plain)) THEN json_loads_exc(f.plain)
    ELSE IF f.plain.shape # "dict"
        THEN Exc("ValueError", "Top-level JSON value must be a dictionary")
    ELSE NoExc

\* The first exception of a sequence of steps, each run only when the ones
\* before it raised nothing
RECURSIVE FirstExc(_)
FirstExc(es) ==
    IF es = <<>> THEN NoExc
    ELSE IF Raised(Head(es)) THEN Head(es)
    ELSE FirstExc(Tail(es))

\* ----------------------------------------------------------------- state
Servers == {"s1", "s2"}

VARIABLES
    permuters,       \* self._permuters: the descriptors, shared by all connections
    priority,        \* self._priority
    threads,         \* the servers start_client started a Connection.run for
    task_queue,      \* self._task_queue, shared
    feedback_queue,  \* self._feedback_queue, shared: <<event, nickname>> pairs
    pc,              \* where each run is blocked
    sock,            \* self._sock: "none", "open", "wr_shut", "closed"
    port,            \* the Port of _setup
    finished,        \* the local `finished` of run
    finish_reason,   \* the local `finish_reason` of run
    props,           \* the local `props` of run: the ServerProps of _init
    msg,             \* the local `msg` of run
    io,              \* history: every socket and task-queue operation of a run
    menu,            \* what the environment of the runs may do (never changes)
    emitted,         \* history: the events each run put, in the order it put them
    consumed,        \* history: the <<server, task>> of every task_queue.get()
    raised,          \* the exception that left each run, NoExc when none did
    pclient,         \* PortSpec: the Port made with is_client=True
    pserver,         \* PortSpec: the Port made with is_client=False
    wire,            \* PortSpec: the frames in flight, per receiving side
    encrypted        \* PortSpec: history of the nonces given to box.encrypt

connVars == <<permuters, priority, threads, task_queue, feedback_queue, pc, sock,
              port, props, finished, finish_reason, msg, io, menu, emitted,
              consumed, raised>>
portVars == <<pclient, pserver, wire, encrypted>>
vars == <<connVars, portVars>>

\* ---------------------------------------------------------------- values
\* PortablePermuter: the fields run compares
Permuter(i) == [base_score |-> 100 + (i % 2), base_hash |-> "abc"]

\* Task: (permuter, seed), or the Finished sentinel
Task(p, s) == [k |-> "Task", permuter |-> p, seed |-> s]
Sentinel == [k |-> "Finished", permuter |-> 0, seed |-> 0]

\* The task queues of Init: tasks with seeds 1, 2, ..., then perhaps a
\* sentinel, and perhaps one more task behind it (put there for another run)
TaskQueues ==
    LET work(n) == [i \in 1..n |-> Task(0, i)]
    IN {work(n) : n \in 0..MaxTasks}
       \cup {Append(work(n), Sentinel) : n \in 0..(MaxTasks - 1)}
       \cup {work(n) \o <<Sentinel, Task(0, n + 1)>> : n \in 0..(MaxTasks - 2)}

\* A reason is a string, kept as the pieces it is formatted from; None is <<>>
None == <<>>

\* EvalResult
NoResult == [cls |-> "", score |-> 0, hash |-> "", source |-> "", exc_str |-> ""]
EvalError(exc_str) == [NoResult EXCEPT !.cls = "EvalError", !.exc_str = exc_str]
CandidateResult(score, hash, source) ==
    [NoResult EXCEPT !.cls = "CandidateResult", !.score = score, !.hash = hash,
                     !.source = source]

\* ServerProps
ServerProps(min_priority, num_cpus) == [min_priority |-> min_priority, num_cpus |-> num_cpus]
NoProps == ServerProps(0, 0)

\* Feedback
Event(k, perm, result, text) ==
    [k |-> k, permuter |-> perm, result |-> result, text |-> text]
NeedMoreWork == Event("NeedMoreWork", 0, NoResult, None)
Message(text) == Event("Message", 0, NoResult, <<text>>)
WorkDone(perm, result) == Event("WorkDone", perm, result, None)
Finished(reason) == Event("Finished", 0, NoResult, reason)

\* self._server.nickname
nickname(c) == c

\* A history entry
\* (plain: the plaintext a receive decrypted, NoPlain otherwise;
\* and at: the blocking point of run the entry was made after)
IO(op, kind, ok, nonce, arg, plain) ==
    [at |-> "", op |-> op, kind |-> kind, ok |-> ok, nonce |-> nonce, arg |-> arg,
     plain |-> plain]
At(pos, entries) == [i \in 1..Len(entries) |-> [entries[i] EXCEPT !.at = pos]]
NoPlain == [EmptyObj EXCEPT !.shape = ""]
NoNonce == 0 - 1

\* ------------------------------------------------------------ run's pieces
\* exception_to_string(e)
exception_to_string(e) == IF e.text # "" THEN e.text ELSE e.cls

\* The except clauses of run
ExceptReason(e) ==
    IF IsEOFError(e) THEN <<"disconnected">>
    ELSE <<"error: ", exception_to_string(e)>>

\* (mutant) the comparison with its operands swapped
BelowMinPrioritySwapped(p, min_priority) == min_priority < p

\* self._priority < props.min_priority
BelowMinPriority(p, min_priority) == p < min_priority

DeclineReason(min_priority) ==
    <<"skipping due to priority requirement ", FloatStr(min_priority)>>
CompileFailReason(error) == <<"failed to compile: ", error>>

\* (mutant) Finished is put only when run ends with a reason
FinallyEventsOnlyOnError(reason) == IF reason = None THEN <<>> ELSE <<Finished(reason)>>

\* The puts of the finally block
FinallyEvents(reason) == <<Finished(reason)>>

\* socket_shutdown(self._sock, SHUT_RDWR); self._sock.close()
FinallySock(s) == IF s = "none" THEN "none" ELSE "closed"

\* The environments of a run.  msgs: "all" lets the peer answer a receive
\* with every frame of the model, "few" with the frames of FewFrames only;
\* teardown: whether a step of the finally block may raise.
Menu(msgs, teardown) == [msgs |-> msgs, teardown |-> teardown]

\* The frames the peer may answer a receive with, of the frames fs
Offered(fs) == IF menu.msgs = "all" THEN fs ELSE fs \cap FewFrames

\* The outcomes of a step that may fail (TRUE: it does not), the sends of n
\* that may raise (0: none), the bytes of the handshake reply that may arrive
Outcomes == IF menu.msgs = "all" THEN BOOLEAN ELSE {TRUE}
FailAt(n) == IF menu.msgs = "all" THEN 0..n ELSE {0}
ReplyBytes ==
    IF menu.msgs = "all" THEN {0, 39, HandshakeReplyLen} ELSE {HandshakeReplyLen}

\* The step of the finally block that raises: the put of the terminal event
\* (the queue was closed), or self._sock.close(); "" when none does.
\* socket_shutdown raises nothing, also on a socket already shut down.
TeardownFaults == IF menu.teardown THEN {"", "put", "close"} ELSE {""}
FinallyRaises(s, fault) == fault = "put" \/ (fault = "close" /\ s # "none")

\* The finally block when one of its steps may raise: the events it put,
\* the socket it leaves, and the exception that leaves run
FinallyPut(reason, fault) == IF fault = "put" THEN <<>> ELSE FinallyEvents(reason)
FinallySockAfter(s, fault) ==
    IF fault = "put" THEN s
    ELSE IF FinallyRaises(s, fault) THEN "shut"
    ELSE FinallySock(s)
FinallyExc(s, fault) ==
    IF fault = "put" THEN Exc("ValueError", "Queue is closed")
    ELSE IF FinallyRaises(s, fault) THEN Exc("OSError", "close")
    ELSE NoExc

\* (mutant) every event carries the nickname of the first server
TaggedAsFirst(c, events) == [i \in 1..Len(events) |-> <<events[i], nickname("s1")>>]

\* self._feedback_queue.put((event, self._server.nickname)), event by event
Tagged(c, events) == [i \in 1..Len(events) |-> <<events[i], nickname(c)>>]

\* The sends of a run, one after the other, on port p: `items` are
\* <<kind, arg>> pairs and send number fail_at (0: none) raises in sendall.
RECURSIVE PortAfterSends(_, _)
PortAfterSends(p, k) == IF k = 0 THEN p ELSE Port_send(PortAfterSends(p, k - 1))
SentCount(items, fail_at) == IF fail_at = 0 THEN Len(items) ELSE fail_at
SendLog(p, items, fail_at) ==
    [k \in 1..SentCount(items, fail_at) |->
        IO("send", items[k][1], k # fail_at,
           PortAfterSends(p, k - 1).send_nonce, items[k][2], NoPlain)]
SendExc(fail_at) == IF fail_at = 0 THEN NoExc ELSE Exc("BrokenPipeError", "Broken pipe")

\* The history entry of a Port.receive that found frame f: what the wire
\* delivered ("short": the stream ended inside the frame, "garbled": the
\* frame does not decrypt, "ok": it does, to plain)
FrameArrives(f) == f.hdr >= LengthPrefixLen /\ f.body >= f.length
ReceiveLog(p, f) ==
    IO("receive",
       IF ~FrameArrives(f) THEN "short" ELSE IF ~f.good THEN "garbled" ELSE "ok",
       FrameArrives(f) /\ f.good, p.receive_nonce, <<f.hdr, f.body>>,
       IF FrameArrives(f) /\ f.good THEN f.plain ELSE NoPlain)

\* What one step of a run leaves behind: the events it put, then either the
\* finally block (exit) with `reason`, or the next blocking point.
Leave(c, events, exit, reason, nextpc, s) ==
    \E fault \in TeardownFaults :
        LET put == events \o (IF exit THEN FinallyPut(reason, fault) ELSE <<>>)
        IN /\ feedback_queue' = feedback_queue \o Tagged(c, put)
           /\ emitted' = [emitted EXCEPT ![c] = @ \o put]
           /\ pc' = [pc EXCEPT ![c] = IF exit THEN "done" ELSE nextpc]
           /\ finish_reason' = [finish_reason EXCEPT ![c] = IF exit THEN reason ELSE @]
           /\ sock' = [sock EXCEPT ![c] = IF exit THEN FinallySockAfter(s, fault) ELSE s]
           /\ raised' = [raised EXCEPT ![c] = IF exit THEN FinallyExc(s, fault) ELSE @]

TypeOK ==
    /\ threads \subseteq Servers
    /\ priority \in Priorities
    /\ Len(permuters) \in 1..MaxPermuters
    /\ \A c \in Servers :
          /\ pc[c] \in {"start", "reply", "placeholder", "caps", "compile", "get",
                        "recv", "source", "done"}
          /\ sock[c] \in {"none", "open", "wr_shut", "shut", "closed"}
          /\ finished[c] \in BOOLEAN

\* Two Ports on the two ends of a socket pair, made for one box
PortInit ==
    /\ pclient = Port_init(TRUE)
    /\ pserver = Port_init(FALSE)
    /\ wire = [client |-> <<>>, server |-> <<>>]
    /\ encrypted = <<>>

\* Nothing has happened yet
NoHistory ==
    /\ emitted = [c \in Servers |-> <<>>]
    /\ consumed = <<>>
    /\ raised = [c \in Servers |-> NoExc]

Init ==
    /\ menu = Menu("all", FALSE)
    /\ permuters \in {[i \in 1..n |-> Permuter(i - 1)] : n \in 1..MaxPermuters}
    /\ priority \in Priorities
    /\ threads = {"s1"}
    /\ task_queue \in TaskQueues
    /\ feedback_queue = <<>>
    /\ pc = [c \in Servers |-> "start"]
    /\ sock = [c \in Servers |-> "none"]
    /\ port = [c \in Servers |-> NoPort]
    /\ finished = [c \in Servers |-> FALSE]
    /\ finish_reason = [c \in Servers |-> None]
    /\ props = [c \in Servers |-> NoProps]
    /\ msg = [c \in Servers |-> EmptyObj]
    /\ io = [c \in Servers |-> <<>>]
    /\ NoHistory
    /\ PortInit

\* ------------------------------------------------------------------ _setup
\* verify_with_magic(b"SERVER", self._server.ver_key, msg)
verify_with_magic(signed) ==
    IF signed THEN NoExc
    ELSE Exc("BadSignatureError", "Signature was forged or corrupt")

\* socket.create_connection, setsockopt, sock.sendall(version + key + signature)
Setup_connect(c) ==
    /\ c \in threads
    /\ pc[c] = "start"
    /\ \E connected \in Outcomes, sent \in Outcomes :
        LET exc == IF ~connected
                       THEN Exc("ConnectionRefusedError", "Connection refused")
                   ELSE IF ~sent THEN SendExc(1) ELSE NoExc
        IN /\ io' = [io EXCEPT ![c] =
                  @ \o At(pc[c], <<IO("connect", "", connected, NoNonce, <<>>, NoPlain)>>
                    \o (IF connected
                        THEN <<IO("sendall", "hello", sent, NoNonce, <<>>, NoPlain)>>
                        ELSE <<>>))]
           /\ Leave(c, <<>>, Raised(exc), ExceptReason(exc), "reply",
                    IF connected THEN "open" ELSE "none")
    /\ UNCHANGED portVars
    /\ UNCHANGED <<menu, consumed, permuters, priority, threads, task_queue, port, props, finished, msg>>

\* (mutant) the reply is not verified
SetupReplyExcUnverified(got, signed) == socket_read_fixed(got, HandshakeReplyLen)

\* What _setup does with the server's reply: read it in full, verify it
SetupReplyExc(got, signed) ==
    FirstExc(<<socket_read_fixed(got, HandshakeReplyLen), verify_with_magic(signed)>>)

\* msg = socket_read_fixed(sock, 7 + 32 + 64); verify_with_magic; Box; SocketPort
Setup_reply(c) ==
    /\ c \in threads
    /\ pc[c] = "reply"
    /\ \E got \in ReplyBytes, signed \in Outcomes :
        LET rexc == socket_read_fixed(got, HandshakeReplyLen)
            exc == SetupReplyExc(got, signed)
        IN /\ io' = [io EXCEPT ![c] =
                  @ \o At(pc[c], <<IO("read_fixed", "reply", ~Raised(rexc), NoNonce, <<got>>, NoPlain)>>
                    \o (IF Raised(rexc) THEN <<>>
                        ELSE <<IO("verify", "reply", signed, NoNonce, <<>>, NoPlain)>>))]
           /\ port' = [port EXCEPT ![c] = IF Raised(exc) THEN @ ELSE Port_init(TRUE)]
           /\ Leave(c, <<>>, Raised(exc), ExceptReason(exc), "placeholder", sock[c])
    /\ UNCHANGED portVars
    /\ UNCHANGED <<menu, consumed, permuters, priority, threads, task_queue, props, finished, msg>>

\* What the placeholder receive of _setup raises
PlaceholderExc(f) == Port_receive_exc(f)

\* port.receive() of _setup; then _init: port.send(self._grant)
Setup_placeholder(c) ==
    /\ c \in threads
    /\ pc[c] = "placeholder"
    /\ \E f \in Offered(Frames({EmptyObj})), fail_at \in FailAt(1) :
        LET rexc == PlaceholderExc(f)
            p1 == Port_receive(port[c], f)
            items == << <<"grant", <<>>>> >>
            exc == FirstExc(<<rexc, SendExc(fail_at)>>)
        IN /\ io' = [io EXCEPT ![c] =
                  @ \o At(pc[c], <<ReceiveLog(port[c], f)>>
                    \o (IF Raised(rexc) THEN <<>> ELSE SendLog(p1, items, fail_at)))]
           /\ port' = [port EXCEPT ![c] =
                  IF Raised(rexc) THEN p1
                  ELSE PortAfterSends(p1, SentCount(items, fail_at))]
           /\ Leave(c, <<>>, Raised(exc), ExceptReason(exc), "caps", sock[c])
    /\ UNCHANGED portVars
    /\ UNCHANGED <<menu, consumed, permuters, priority, threads, task_queue, props, finished, msg>>

\* ------------------------------------------------------- _init, negotiation
\* (mutant) the object of a descriptor is sent before its source
SendPermutersItemsObjectFirst(perms) ==
    << <<"meta", [i \in 1..Len(perms) |-> i - 1]>> >>
    \o [k \in 1..(2 * Len(perms)) |->
          <<IF k % 2 = 1 THEN "object" ELSE "source", <<(k - 1) \div 2>>>>]

\* _send_permuters: the metadata of all descriptors, then per descriptor its
\* compressed source and its target object (descriptors numbered from 0)
SendPermutersItems(perms) ==
    << <<"meta", [i \in 1..Len(perms) |-> i - 1]>> >>
    \o [k \in 1..(2 * Len(perms)) |->
          <<IF k % 2 = 1 THEN "source" ELSE "object", <<(k - 1) \div 2>>>>]

\* obj = json.loads(port.receive()); ServerProps(json_prop..., json_prop...)
InitExc(f) ==
    FirstExc(<<Port_receive_exc(f), json_loads_exc(f.plain),
               json_prop(f.plain, "min_priority", "float"),
               json_prop(f.plain, "num_cpus", "float")>>)

\* The rest of _init, the priority gate of run, _send_permuters
Init_caps(c) ==
    /\ c \in threads
    /\ pc[c] = "caps"
    /\ \E f \in Offered(Frames(CapsMsgs)), fail_at \in FailAt(1 + 2 * Len(permuters)) :
        LET pexc == InitExc(f)
            p1 == Port_receive(port[c], f)
            decline == ~Raised(pexc) /\ BelowMinPriority(priority, f.plain.min_priority.n)
            sending == ~Raised(pexc) /\ ~decline
            items == SendPermutersItems(permuters)
            exc == IF sending THEN SendExc(fail_at) ELSE pexc
        IN /\ props' = [props EXCEPT ![c] =
                  IF Raised(pexc) THEN @
                  ELSE ServerProps(f.plain.min_priority.n, f.plain.num_cpus.n)]
           /\ io' = [io EXCEPT ![c] =
                  @ \o At(pc[c], <<ReceiveLog(port[c], f)>>
                    \o (IF sending THEN SendLog(p1, items, fail_at) ELSE <<>>))]
           /\ port' = [port EXCEPT ![c] =
                  IF sending THEN PortAfterSends(p1, SentCount(items, fail_at)) ELSE p1]
           /\ Leave(c, <<>>, decline \/ Raised(exc),
                    IF decline THEN DeclineReason(f.plain.min_priority.n)
                    ELSE ExceptReason(exc),
                    "compile", sock[c])
    /\ UNCHANGED portVars
    /\ UNCHANGED <<menu, consumed, permuters, priority, threads, task_queue, finished, msg>>

\* json_array(json_prop(msg, "perm_bases", list), dict)
json_array(bases) ==
    IF \E i \in 1..Len(bases) : bases[i].shape # "dict"
    THEN Exc("ValueError", "Array elements must have type dict")
    ELSE NoExc

\* (mutant) only a higher reported score counts
ScoreMismatchOneSided(base_score, my_base_score) == base_score.n > my_base_score

\* base_score != my_base_score (True equals 1)
ScoreMismatch(base_score, my_base_score) == base_score.n # my_base_score

\* (mutant) the reported hash is compared with itself
HashMismatchSelf(base_hash, my_base_hash) == base_hash.s # base_hash.s

\* base_hash != my_base_hash
HashMismatch(base_hash, my_base_hash) == base_hash.s # my_base_hash

\* for i, base in enumerate(bases): ... from element i on: the notes put, and
\* the exception that ends the loop, if any
RECURSIVE ValidateBases(_, _, _)
ValidateBases(perms, bases, i) ==
    IF i > Len(bases) THEN [events |-> <<>>, exc |-> NoExc]
    ELSE
      LET base == bases[i]
          texc == FirstExc(<<json_prop(base, "base_score", "int"),
                             json_prop(base, "base_hash", "str")>>)
      IN IF Raised(texc) THEN [events |-> <<>>, exc |-> texc]
         ELSE IF ScoreMismatch(base.base_score, perms[i].base_score)
           THEN [events |-> <<>>, exc |-> Exc("ValueError", "mismatching base score!")]
         ELSE
           LET rest == ValidateBases(perms, bases, i + 1)
           IN [events |->
                  (IF HashMismatch(base.base_hash, perms[i].base_hash)
                   THEN <<Message("note: mismatching hash")>> ELSE <<>>)
                  \o rest.events,
               exc |-> rest.exc]

\* len(bases) != len(self._permuters)
BasesSizeExc(perms, bases) ==
    IF Len(bases) # Len(perms) THEN Exc("ValueError", "perm_bases has wrong size")
    ELSE NoExc

\* msg = port.receive_json() ... up to the first put of NeedMoreWork: the
\* events put, whether run returns or raises, and the reason then
CompileOutcome(perms, f) ==
    LET m == f.plain
        sexc == FirstExc(<<receive_json_exc(f), json_prop(m, "success", "bool")>>)
    IN IF Raised(sexc)
         THEN [events |-> <<>>, exit |-> TRUE, reason |-> ExceptReason(sexc)]
       ELSE IF m.success.n = 0
         THEN [events |-> <<>>, exit |-> TRUE,
               reason |-> IF Raised(json_prop(m, "error", "str"))
                          THEN ExceptReason(json_prop(m, "error", "str"))
                          ELSE CompileFailReason(m.error.s)]
       ELSE
         LET bexc == FirstExc(<<json_prop(m, "perm_bases", "list"),
                                json_array(m.bases), BasesSizeExc(perms, m.bases)>>)
             v == ValidateBases(perms, m.bases, 1)
         IN IF Raised(bexc)
              THEN [events |-> <<>>, exit |-> TRUE, reason |-> ExceptReason(bexc)]
            ELSE IF Raised(v.exc)
              THEN [events |-> v.events, exit |-> TRUE, reason |-> ExceptReason(v.exc)]
            ELSE [events |-> v.events \o <<NeedMoreWork>>, exit |-> FALSE,
                  reason |-> None]

Compile_result(c) ==
    /\ c \in threads
    /\ pc[c] = "compile"
    /\ \E f \in Offered(Frames(CompileMsgs(Len(permuters)))) :
        LET out == CompileOutcome(permuters, f)
        IN /\ io' = [io EXCEPT ![c] = @ \o At(pc[c], <<ReceiveLog(port[c], f)>>)]
           /\ port' = [port EXCEPT ![c] = Port_receive(@, f)]
           /\ msg' = [msg EXCEPT ![c] = IF Raised(Port_receive_exc(f)) THEN @ ELSE f.plain]
           /\ finished' = [finished EXCEPT ![c] = FALSE]
           /\ Leave(c, out.events, out.exit, out.reason, "get", sock[c])
    /\ UNCHANGED portVars
    /\ UNCHANGED <<menu, consumed, permuters, priority, threads, task_queue, props>>

\* --------------------------------------------------------------- main loop
\* isinstance(task, Finished)
IsSentinel(task) == task.k = "Finished"

\* port.shutdown(socket.SHUT_WR): the socket after the call
SocketPort_shutdown(s) == "wr_shut"

\* (mutant) get returns the head of the queue and leaves it there
QueueAfterPeek(q) == q

\* self._task_queue.get(): the queue after the call
QueueAfterGet(q) == Tail(q)

\* if not finished: task = self._task_queue.get(); send finish or work
Loop_get(c) ==
    /\ c \in threads
    /\ pc[c] = "get"
    /\ task_queue # <<>>
    /\ \E fail_at \in FailAt(1) :
        LET task == Head(task_queue)
            items == IF IsSentinel(task) THEN << <<"finish", <<>>>> >>
                     ELSE << <<"work", <<task.permuter, task.seed>>>> >>
            exc == SendExc(fail_at)
            shut == IsSentinel(task) /\ ~Raised(exc)
        IN /\ task_queue' = QueueAfterGet(task_queue)
           /\ consumed' = Append(consumed, <<c, task>>)
           /\ io' = [io EXCEPT ![c] =
                  @ \o At(pc[c], <<IO("get", task.k, TRUE, NoNonce, <<task.permuter, task.seed>>, NoPlain)>>
                    \o SendLog(port[c], items, fail_at)
                    \o (IF shut THEN <<IO("shutdown", "SHUT_WR", TRUE, NoNonce, <<>>, NoPlain)>>
                        ELSE <<>>))]
           /\ port' = [port EXCEPT ![c] = PortAfterSends(@, 1)]
           /\ finished' = [finished EXCEPT ![c] = IF shut THEN TRUE ELSE @]
           /\ Leave(c, <<>>, Raised(exc), ExceptReason(exc), "recv",
                    IF shut THEN SocketPort_shutdown(sock[c]) ELSE sock[c])
    /\ UNCHANGED portVars
    /\ UNCHANGED <<menu, permuters, priority, threads, props, msg>>

\* _result_from_json(obj, source): what it raises
result_from_json_exc(obj) ==
    IF obj.error.t # "absent" THEN json_prop(obj, "error", "str")
    ELSE FirstExc(<<json_prop(obj, "profiler", "dict"), json_prop(obj, "score", "int"),
                    json_prop(obj, "hash", "str")>>)

\* (mutant) the score is read from the wrong key
result_from_json_wrong_key(obj, source) ==
    IF obj.error.t # "absent" THEN EvalError(obj.error.s)
    ELSE CandidateResult(obj.permuter.n, obj.hash.s, source)

\* _result_from_json(obj, source): what it returns
result_from_json(obj, source) ==
    IF obj.error.t # "absent" THEN EvalError(obj.error.s)
    ELSE CandidateResult(obj.score.n, obj.hash.s, source)

\* msg_type == "finish": break
IsFinishType(msg_type) == msg_type = "finish"

\* The loop messages a run has received so far, and all runs together
LoopReceives(c) ==
    Cardinality({i \in 1..Len(io[c]) : io[c][i].op = "receive" /\ io[c][i].at = "recv"})
TotalLoopReceives ==
    Cardinality({p \in UNION {{c} \X (1..Len(io[c])) : c \in Servers} :
                    io[p[1]][p[2]].op = "receive" /\ io[p[1]][p[2]].at = "recv"})

\* (mutant) every iteration pulls a task
LoopTopAlwaysGet(fin) == "get"

\* (mutant) no iteration after the first pulls a task
LoopTopNeverGet(fin) == "recv"

\* The top of the next iteration
LoopTop(fin) == IF fin THEN "recv" ELSE "get"

\* (mutant) a need_work message is answered with two events
OnNeedWorkTwice(msg_type) == <<NeedMoreWork, NeedMoreWork>>

\* elif msg_type == "need_work": the events put
OnNeedWork(msg_type) == <<NeedMoreWork>>

\* msg = port.receive_json() and the dispatch on its type: the events put,
\* whether the loop is left, the reason then, and whether a source follows
LoopOutcome(f, reason0) ==
    LET m == f.plain
        texc == FirstExc(<<receive_json_exc(f), json_prop(m, "type", "str")>>)
        fail(e) == [events |-> <<>>, exit |-> TRUE, reason |-> ExceptReason(e),
                    source |-> FALSE]
    IN IF Raised(texc) THEN fail(texc)
       ELSE IF IsFinishType(m.type.s)
         THEN [events |-> <<>>, exit |-> TRUE, reason |-> reason0, source |-> FALSE]
       ELSE IF m.type.s = "need_work"
         THEN [events |-> OnNeedWork(m.type.s), exit |-> FALSE, reason |-> reason0,
               source |-> FALSE]
       ELSE IF m.type.s = "result"
         THEN IF Raised(json_prop(m, "permuter", "int"))
                THEN fail(json_prop(m, "permuter", "int"))
              ELSE IF EqualsTrue(m.has_source)
                THEN [events |-> <<>>, exit |-> FALSE, reason |-> reason0,
                      source |-> TRUE]
              ELSE IF Raised(result_from_json_exc(m)) THEN fail(result_from_json_exc(m))
              ELSE [events |-> <<WorkDone(m.permuter.n, result_from_json(m, ""))>>,
                    exit |-> FALSE, reason |-> reason0, source |-> FALSE]
       ELSE fail(Exc("ValueError", "Invalid message type " \o m.type.s))

Loop_receive(c) ==
    /\ c \in threads
    /\ pc[c] = "recv"
    /\ TotalLoopReceives < MaxLoopReceives
    /\ \E f \in Offered(Frames(LoopMsgs)) :
        LET out == LoopOutcome(f, finish_reason[c])
        IN /\ io' = [io EXCEPT ![c] = @ \o At(pc[c], <<ReceiveLog(port[c], f)>>)]
           /\ port' = [port EXCEPT ![c] = Port_receive(@, f)]
           /\ msg' = [msg EXCEPT ![c] = IF Raised(Port_receive_exc(f)) THEN @ ELSE f.plain]
           /\ Leave(c, out.events, out.exit, out.reason,
                    IF out.source THEN "source" ELSE LoopTop(finished[c]), sock[c])
    /\ UNCHANGED portVars
    /\ UNCHANGED <<menu, consumed, permuters, priority, threads, task_queue, props, finished>>

\* compressed_source = port.receive(); zlib.decompress(...).decode("utf-8");
\* _result_from_json(msg, source); put WorkDone
SourceExc(f, m) ==
    FirstExc(<<Port_receive_exc(f),
               IF f.plain.zlib = "" THEN Exc("error", "Error -3 while decompressing data")
               ELSE NoExc,
               result_from_json_exc(m)>>)

Loop_source(c) ==
    /\ c \in threads
    /\ pc[c] = "source"
    /\ \E f \in Offered(Frames({RawSource, NotJson})) :
        LET exc == SourceExc(f, msg[c])
        IN /\ io' = [io EXCEPT ![c] = @ \o At(pc[c], <<ReceiveLog(port[c], f)>>)]
           /\ port' = [port EXCEPT ![c] = Port_receive(@, f)]
           /\ Leave(c,
                    IF Raised(exc) THEN <<>>
                    ELSE <<WorkDone(msg[c].permuter.n, result_from_json(msg[c], f.plain.zlib))>>,
                    Raised(exc), ExceptReason(exc), LoopTop(finished[c]), sock[c])
    /\ UNCHANGED portVars
    /\ UNCHANGED <<menu, consumed, permuters, priority, threads, task_queue, props, finished, msg>>

\* ------------------------------------------------------------ specification
\* Connection.run: one step of the thread start_client started for server c
Run(c) ==
    \/ Setup_connect(c)
    \/ Setup_reply(c)
    \/ Setup_placeholder(c)
    \/ Init_caps(c)
    \/ Compile_result(c)
    \/ Loop_get(c)
    \/ Loop_receive(c)
    \/ Loop_source(c)

Next == \E c \in Servers : Run(c)

Spec == Init /\ [][Next]_vars

\* ------------------------------------------- several connections, teardown
\* No run has started: the locals of every run and the histories
Fresh ==
    /\ feedback_queue = <<>>
    /\ pc = [c \in Servers |-> "start"]
    /\ sock = [c \in Servers |-> "none"]
    /\ port = [c \in Servers |-> NoPort]
    /\ finished = [c \in Servers |-> FALSE]
    /\ finish_reason = [c \in Servers |-> None]
    /\ props = [c \in Servers |-> NoProps]
    /\ msg = [c \in Servers |-> EmptyObj]
    /\ io = [c \in Servers |-> <<>>]
    /\ NoHistory
    /\ PortInit

\* The task queues several connections share: work tasks with seeds 1, 2, ...
\* and, anywhere among them, at most one sentinel per connection
SharedQueue(len, sentinels) ==
    [i \in 1..len |->
        IF i \in sentinels THEN Sentinel
        ELSE Task(0, Cardinality({j \in 1..i : j \notin sentinels}))]
SharedTaskQueues ==
    {SharedQueue(len, ss) :
        len \in 0..MaxSharedTasks,
        ss \in {x \in SUBSET (1..MaxSharedTasks) : Cardinality(x) <= Cardinality(Servers)}}

\* start_client: one thread per server, all on the same two queues
MultiInit ==
    /\ menu = Menu("few", FALSE)
    /\ permuters = <<Permuter(0)>>
    /\ priority = 5
    /\ threads = Servers
    /\ task_queue \in SharedTaskQueues
    /\ Fresh

MultiSpec == MultiInit /\ [][Next]_vars

\* One connection whose finally block may fail
TeardownInit ==
    /\ menu = Menu("few", TRUE)
    /\ permuters = <<Permuter(0)>>
    /\ priority \in Priorities
    /\ threads = {"s1"}
    /\ task_queue \in TaskQueues
    /\ Fresh

TeardownSpec == TeardownInit /\ [][Next]_vars

\* ------------------------------------------------- two Ports sharing a box
Sides == {"client", "server"}
Peer(side) == IF side = "client" THEN "server" ELSE "client"
PortOf(side) == IF side = "client" THEN pclient ELSE pserver

\* What one call leaves of the two Ports: the caller's is p
SetPort(side, p) ==
    /\ pclient' = IF side = "client" THEN p ELSE pclient
    /\ pserver' = IF side = "server" THEN p ELSE pserver

\* box.decrypt(data, nonce): the frame was encrypted with that nonce and
\* arrives as it was sent
Decrypts(frame, nonce) == frame.intact /\ frame.nonce = nonce

\* Port.send on one side: pack the nonce, advance, encrypt, sendall
PortSend(side) ==
    /\ Len(encrypted) < MaxPortOps
    /\ LET nonce == PackNonce(PortOf(side).send_nonce)
       IN /\ encrypted' = Append(encrypted, [who |-> side, nonce |-> nonce,
                                             counter |-> PortOf(side).send_nonce])
          /\ wire' = [wire EXCEPT ![Peer(side)] =
                         Append(@, [nonce |-> nonce, intact |-> TRUE])]
    /\ SetPort(side, Port_send(PortOf(side)))
    /\ UNCHANGED connVars

\* Port.receive on one side of a frame that arrived in full
PortReceive(side) ==
    /\ wire[side] # <<>>
    /\ LET good == Decrypts(Head(wire[side]), PackNonce(PortOf(side).receive_nonce))
           f == Frame(LengthPrefixLen, FrameLen, FrameLen, good, EmptyObj)
       IN SetPort(side, Port_receive(PortOf(side), f))
    /\ wire' = [wire EXCEPT ![side] = Tail(@)]
    /\ UNCHANGED <<connVars, encrypted>>

\* Port.receive on one side when the stream ends inside the next frame
PortReceiveShort(side) ==
    /\ wire[side] # <<>>
    /\ \E hdr \in {3, LengthPrefixLen} :
          SetPort(side, Port_receive(PortOf(side), Frame(hdr, FrameLen, 17, FALSE, EmptyObj)))
    /\ wire' = [wire EXCEPT ![side] = <<>>]
    /\ UNCHANGED <<connVars, encrypted>>

\* The network alters the next frame for one side
Tamper(side) ==
    /\ wire[side] # <<>>
    /\ Head(wire[side]).intact
    /\ wire' = [wire EXCEPT ![side] = <<[Head(@) EXCEPT !.intact = FALSE]>> \o Tail(@)]
    /\ UNCHANGED <<connVars, pclient, pserver, encrypted>>

PortNext ==
    \E side \in Sides :
        \/ PortSend(side)
        \/ PortReceive(side)
        \/ PortReceiveShort(side)
        \/ Tamper(side)

\* One configuration of the connections, none of them running
PortSpecInit ==
    /\ menu = Menu("all", FALSE)
    /\ permuters = <<Permuter(0)>>
    /\ priority = 5
    /\ threads = {}
    /\ task_queue = <<>>
    /\ feedback_queue = <<>>
    /\ pc = [c \in Servers |-> "start"]
    /\ sock = [c \in Servers |-> "none"]
    /\ port = [c \in Servers |-> NoPort]
    /\ finished = [c \in Servers |-> FALSE]
    /\ finish_reason = [c \in Servers |-> None]
    /\ props = [c \in Servers |-> NoProps]
    /\ msg = [c \in Servers |-> EmptyObj]
    /\ io = [c \in Servers |-> <<>>]
    /\ NoHistory
    /\ PortInit

PortSpec == PortSpecInit /\ [][PortNext]_vars

\* ------------------------------------------------------------ observations
\* The events one connection put, in the order of the queue
Events(c) ==
    LET mine == SelectSeq(feedback_queue, LAMBDA e : e[2] = nickname(c))
    IN [i \in 1..Len(mine) |-> mine[i][1]]
CountOf(ev, k) == Cardinality({i \in 1..Len(ev) : ev[i].k = k})
WithoutNotes(ev) == SelectSeq(ev, LAMBDA e : e.k # "Message")

\* The history entries of one kind of operation
IOsOf(c, op) == SelectSeq(io[c], LAMBDA e : e.op = op)
\* The plaintexts (NoPlain for a failed receive) of the receives of the loop
LoopPlains(c) ==
    LET r == SelectSeq(io[c], LAMBDA e : e.op = "receive" /\ e.at = "recv")
    IN [i \in 1..Len(r) |-> r[i].plain]
\* The tasks pulled
Pulled(c) ==
    LET g == IOsOf(c, "get")
    IN [i \in 1..Len(g) |-> <<g[i].kind, g[i].arg>>]

\* A reason that is a non-empty string
HasReason(r) == r # None /\ \E i \in 1..Len(r) : r[i] # ""

\* ---------------------------------------------------------------- claims
\* C1: when run has returned, by whatever path, the connection has put
\* exactly one Finished event and it is the last event it put; while run is
\* still going it has put none.
C1_ExactlyOneFinishedLast ==
    \A c \in Servers :
        LET ev == Events(c)
        IN IF pc[c] = "done"
           THEN /\ CountOf(ev, "Finished") = 1
                /\ ev[Len(ev)] = Finished(finish_reason[c])
           ELSE CountOf(ev, "Finished") = 0

\* C1 witness: a run that ended on an exception after it had put other events
C1_Witness ==
    \E c \in Servers :
        /\ pc[c] = "done"
        /\ HasReason(finish_reason[c])
        /\ Len(Events(c)) >= 3

\* C2: a run that went through the main loop ended with no reason exactly
\* when its last receive was a "finish" message taken after the
\* sending-finished flag was set.
C2_NormalEndOnlyAfterSendingFinished ==
    \A c \in Servers :
        (pc[c] = "done" /\ Len(IOsOf(c, "get")) > 0) =>
            LET last == io[c][Len(io[c])]
            IN (finish_reason[c] = None) <=>
                  /\ finished[c]
                  /\ last.op = "receive" /\ last.at = "recv" /\ last.ok
                  /\ last.plain.type = JStr("finish")

\* C2 witness of the case: the loop was left on a "finish" message while the
\* sending-finished flag was still false
C2_Case ==
    \E c \in Servers :
        /\ pc[c] = "done" /\ ~finished[c]
        /\ Len(IOsOf(c, "get")) > 0
        /\ io[c][Len(io[c])].op = "receive"
        /\ io[c][Len(io[c])].plain.type = JStr("finish")

\* The scenario of C3: the tasks pulled and the loop messages received
C3_Scenario(c) ==
    /\ Pulled(c) = << <<"Task", <<0, 1>>>>, <<"Task", <<0, 2>>>>, <<"Finished", <<0, 0>>>> >>
    /\ LoopPlains(c) = <<LoopMsg("need_work"), ResultMsg(1), ResultMsg(2), LoopMsg("finish")>>

\* C3 as stated: in the scenario the connection's events (hash notes aside)
\* are request-more-work, two work-done, Finished(None), and nothing else.
C3_Original ==
    \A c \in Servers :
        C3_Scenario(c) =>
            WithoutNotes(Events(c)) =
                <<NeedMoreWork,
                  WorkDone(0, CandidateResult(1, "h", "")),
                  WorkDone(0, CandidateResult(2, "h", "")),
                  Finished(None)>>

\* C3 amended: in the scenario the connection's events (hash notes aside) are
\* the request-more-work put when negotiation succeeded, the request-more-work
\* for need_work, the two work-done in the order of the results, and
\* Finished(None); the notes all come before the first of them.
C3_LoopEvents ==
    \A c \in Servers :
        C3_Scenario(c) =>
            LET ev == Events(c)
                n == CountOf(ev, "Message")
            IN /\ pc[c] = "done"
               /\ \A i \in 1..n : ev[i].k = "Message"
               /\ WithoutNotes(ev) =
                    <<NeedMoreWork, NeedMoreWork,
                      WorkDone(0, CandidateResult(1, "h", "")),
                      WorkDone(0, CandidateResult(2, "h", "")),
                      Finished(None)>>

\* C3 witness: the scenario has run to its end
C3_Witness == \E c \in Servers : C3_Scenario(c) /\ pc[c] = "done"

\* The exceptions a run can meet, with any text
ExcClasses ==
    {"EOFError", "Exception", "ValueError", "AttributeError", "CryptoError",
     "JSONDecodeError", "BrokenPipeError", "ConnectionRefusedError",
     "BadSignatureError", "error"}
ExcTexts == {"", "eof", "disconnected", "skipping due to priority requirement 5.0"}
FailureReasons == {ExceptReason(Exc(cls, text)) : cls \in ExcClasses, text \in ExcTexts}

\* The messages a connection sent through its Port after the grant
SentAfterGrant(c) == SelectSeq(io[c], LAMBDA e : e.op = "send" /\ e.kind # "grant")

\* C4: when the caller's priority is below the min_priority of the received
\* capabilities, run has ended with the capability receipt as its last
\* operation: nothing was sent after the grant, no task was pulled, and the one
\* terminal event carries the decline reason, which no failure produces.
C4_PriorityDecline ==
    \A c \in Servers :
        priority < props[c].min_priority =>
            /\ pc[c] = "done"
            /\ io[c][Len(io[c])].op = "receive" /\ io[c][Len(io[c])].at = "caps"
            /\ SentAfterGrant(c) = <<>>
            /\ Pulled(c) = <<>>
            /\ Events(c) = <<Finished(DeclineReason(props[c].min_priority))>>
            /\ finish_reason[c] \notin FailureReasons

\* C4 witness: capabilities with a min_priority above the caller's priority
\* were received
C4_Witness ==
    \E c \in Servers :
        priority < props[c].min_priority /\ props[c] # NoProps /\ pc[c] = "done"

\* The compile-result message a connection received, if it received one
CompileReceives(c) == SelectSeq(io[c], LAMBDA e : e.op = "receive" /\ e.at = "compile" /\ e.ok)
\* It reports success and a list of baselines
ReportsBases(m) == m.shape = "dict" /\ m.success = JBool(TRUE) /\ m.perm_bases = JList
\* Baseline i is an object with an integer score and a string hash
BaseWellFormed(b) ==
    b.shape = "dict" /\ isinstance(b.base_score, "int") /\ isinstance(b.base_hash, "str")
\* The reported baselines diverge from the local ones in size or in a score
ScoresDiverge(m) ==
    \/ Len(m.bases) # Len(permuters)
    \/ \E i \in 1..Len(m.bases) :
          /\ i <= Len(permuters)
          /\ isinstance(m.bases[i].base_score, "int")
          /\ m.bases[i].base_score.n # permuters[i].base_score
\* Every baseline is reported, well formed, with the local score
ScoresAgree(m) ==
    /\ Len(m.bases) = Len(permuters)
    /\ \A i \in 1..Len(m.bases) :
          /\ BaseWellFormed(m.bases[i])
          /\ m.bases[i].base_score.n = permuters[i].base_score
HashMismatches(m) ==
    Cardinality({i \in 1..Len(m.bases) : m.bases[i].base_hash.s # permuters[i].base_hash})

\* C5: after a successful compile result whose baselines differ from the local
\* ones in number or in some score, run has ended: no request-more-work was
\* put, no task pulled, no work or finish sent, and the terminal event carries
\* a non-empty reason.
C5_ScoreMismatchAborts ==
    \A c \in Servers :
        \A k \in 1..Len(CompileReceives(c)) :
            LET m == CompileReceives(c)[k].plain
            IN (ReportsBases(m) /\ ScoresDiverge(m)) =>
                  /\ pc[c] = "done"
                  /\ CountOf(Events(c), "NeedMoreWork") = 0
                  /\ Pulled(c) = <<>>
                  /\ \A i \in 1..Len(io[c]) :
                        io[c][i].op = "send" => io[c][i].kind \notin {"work", "finish"}
                  /\ HasReason(finish_reason[c])
                  /\ Events(c)[Len(Events(c))] = Finished(finish_reason[c])

\* C5 witness: well-formed baselines, the second one with another score, the
\* first with another hash
C5_Witness ==
    \E c \in Servers :
        /\ Len(CompileReceives(c)) = 1
        /\ LET m == CompileReceives(c)[1].plain
           IN /\ ReportsBases(m)
              /\ Len(m.bases) = 2 /\ Len(permuters) = 2
              /\ \A i \in 1..2 : BaseWellFormed(m.bases[i])
              /\ m.bases[1].base_score.n = permuters[1].base_score
              /\ m.bases[1].base_hash.s # permuters[1].base_hash
              /\ m.bases[2].base_score.n # permuters[2].base_score

\* C6: after a successful compile result whose baselines all carry the local
\* score, the connection's events start with one note per baseline whose hash
\* differs from the local one, then the request-more-work of the streaming
\* phase; it put no other note, and if run has ended it ended in the main loop.
C6_HashMismatchNotes ==
    \A c \in Servers :
        \A k \in 1..Len(CompileReceives(c)) :
            LET m == CompileReceives(c)[k].plain
                ev == Events(c)
                n == HashMismatches(m)
            IN (ReportsBases(m) /\ ScoresAgree(m)) =>
                  /\ Len(ev) >= n + 1
                  /\ \A i \in 1..n : ev[i] = Message("note: mismatching hash")
                  /\ ev[n + 1] = NeedMoreWork
                  /\ CountOf(ev, "Message") = n
                  /\ pc[c] = "done" => Len(Pulled(c)) > 0

\* C6 witness: one descriptor, its hash reported differently, the run waiting
\* for its first task
C6_Witness ==
    \E c \in Servers :
        /\ Len(permuters) = 1
        /\ Len(CompileReceives(c)) = 1
        /\ ReportsBases(CompileReceives(c)[1].plain)
        /\ ScoresAgree(CompileReceives(c)[1].plain)
        /\ HashMismatches(CompileReceives(c)[1].plain) = 1
        /\ pc[c] = "get"

\* A read that the peer's close cut short
ShortRead(e) ==
    \/ e.op = "read_fixed" /\ e.arg[1] < HandshakeReplyLen
    \/ e.op = "receive" /\ (e.arg[1] < LengthPrefixLen \/ e.arg[2] < FrameLen)

\* C7: when a read of the handshake, the negotiation or the main loop is cut
\* short by the peer closing the stream, the terminal event carries the
\* disconnect reason.
C7_ShortReadIsDisconnect ==
    \A c \in Servers :
        \A i \in 1..Len(io[c]) :
            ShortRead(io[c][i]) =>
                /\ pc[c] = "done"
                /\ Events(c)[Len(Events(c))] = Finished(<<"disconnected">>)

\* C7 witness of the case: a receive of the main loop was cut short
C7_Case ==
    \E c \in Servers :
        \E i \in 1..Len(io[c]) : ShortRead(io[c][i]) /\ io[c][i].at = "recv"

\* The nonces given to box.encrypt by one side, in the order of the calls
NoncesOf(side) ==
    LET mine == SelectSeq(encrypted, LAMBDA e : e.who = side)
    IN [i \in 1..Len(mine) |-> mine[i].nonce]
\* Byte strings of one length, compared as big-endian numbers
BytesLess(a, b) ==
    \E i \in 1..Len(a) : a[i] < b[i] /\ \A j \in 1..(i - 1) : a[j] = b[j]
LastByte(a) == a[Len(a)]

\* C8: of two Ports on one box, one made with is_client=True and one with
\* is_client=False, under any interleaving of sends and receives: the nonces
\* one Port encrypts with are strictly increasing, no nonce is given to
\* box.encrypt twice, by either side, and the client's are even, the server's
\* odd.
C8_NoncesNeverRepeat ==
    /\ \A side \in Sides :
          \A i, j \in 1..Len(NoncesOf(side)) :
              i < j => BytesLess(NoncesOf(side)[i], NoncesOf(side)[j])
    /\ \A i, j \in 1..Len(encrypted) :
          i # j => encrypted[i].nonce # encrypted[j].nonce
    /\ \A i \in 1..Len(encrypted) :
          LastByte(encrypted[i].nonce) % 2 = (IF encrypted[i].who = "client" THEN 0 ELSE 1)

\* C8 witness: both sides have sent twice and each has received in between
C8_Witness ==
    /\ Len(NoncesOf("client")) >= 2
    /\ Len(NoncesOf("server")) >= 2
    /\ pclient.receive_nonce > Port_init(TRUE).receive_nonce
    /\ pserver.receive_nonce > Port_init(FALSE).receive_nonce

\* The handshake of a connection is complete: the reply was read in full, its
\* signature verified, the placeholder received and decrypted, in this order
HandshakeComplete(c, upto) ==
    \E i \in 1..upto :
        /\ io[c][i].op = "read_fixed" /\ io[c][i].ok /\ io[c][i].arg = <<HandshakeReplyLen>>
        /\ \E j \in (i + 1)..upto :
              /\ io[c][j].op = "verify" /\ io[c][j].ok
              /\ \E k \in (j + 1)..upto :
                    io[c][k].op = "receive" /\ io[c][k].at = "placeholder" /\ io[c][k].ok
\* Its verification or its placeholder receive failed
HandshakeFailedAt(e) ==
    \/ e.op = "verify" /\ ~e.ok
    \/ e.op = "receive" /\ e.at = "placeholder" /\ ~e.ok

\* C9: every message a connection sent through a Port was sent after the
\* handshake was complete; and a failed verification or placeholder receive is
\* the last operation of the run, which sent nothing through a Port and ended
\* with a reason.
C9_NoSendBeforeHandshake ==
    \A c \in Servers :
        \A i \in 1..Len(io[c]) :
            /\ io[c][i].op = "send" => HandshakeComplete(c, i - 1)
            /\ HandshakeFailedAt(io[c][i]) =>
                  /\ i = Len(io[c])
                  /\ IOsOf(c, "send") = <<>>
                  /\ pc[c] = "done"
                  /\ HasReason(finish_reason[c])
                  /\ Events(c) = <<Finished(finish_reason[c])>>

\* C9 witness: a work message was sent
C9_Witness ==
    \E c \in Servers : \E i \in 1..Len(io[c]) : io[c][i].op = "send" /\ io[c][i].kind = "work"

\* A receive whose frame arrived but did not decrypt, or decrypted to JSON
\* that is no object where an object is read, or to a loop message of an
\* unknown type
FatalReceive(e) ==
    /\ e.op = "receive"
    /\ \/ e.kind = "garbled"
       \/ e.ok /\ e.at \in {"caps", "compile", "recv"} /\ e.plain.shape = "other"
       \/ /\ e.ok /\ e.at = "recv" /\ e.plain.shape = "dict"
          /\ e.plain.type.t = "str"
          /\ e.plain.type.s \notin {"finish", "need_work", "result"}

\* C10: such a receive is the last operation of the run (no send, receive or
\* task pull follows it), and run has ended with a non-empty reason in its
\* terminal event.
C10_ProtocolViolationFatal ==
    \A c \in Servers :
        \A i \in 1..Len(io[c]) :
            FatalReceive(io[c][i]) =>
                /\ i = Len(io[c])
                /\ pc[c] = "done"
                /\ HasReason(finish_reason[c])
                /\ Events(c)[Len(Events(c))] = Finished(finish_reason[c])

\* C10 witness: a loop message of an unknown type was received
C10_Witness ==
    \E c \in Servers :
        \E i \in 1..Len(io[c]) :
            /\ FatalReceive(io[c][i])
            /\ io[c][i].at = "recv"
            /\ io[c][i].plain.type = JStr("bogus")

\* C11: a pull of the sentinel is followed at once by the send of one finish
\* message.  When that send succeeded the write direction is shut down next,
\* the sending-finished flag is set, and every later operation of the run is
\* a receive: no pull, no send.  When it raised, the run ended there with a
\* reason.  A run sends at most one finish message.
C11_AfterSentinel ==
    \A c \in Servers :
        /\ Len(SelectSeq(io[c], LAMBDA e : e.op = "send" /\ e.kind = "finish")) <= 1
        /\ \A i \in 1..Len(io[c]) :
              (io[c][i].op = "get" /\ io[c][i].kind = "Finished") =>
                  /\ i < Len(io[c])
                  /\ io[c][i + 1].op = "send" /\ io[c][i + 1].kind = "finish"
                  /\ IF io[c][i + 1].ok
                     THEN /\ i + 2 <= Len(io[c])
                          /\ io[c][i + 2].op = "shutdown"
                          /\ io[c][i + 2].kind = "SHUT_WR"
                          /\ finished[c]
                          /\ pc[c] # "done" => sock[c] = "wr_shut"
                          /\ \A j \in (i + 3)..Len(io[c]) : io[c][j].op = "receive"
                     ELSE /\ i + 1 = Len(io[c])
                          /\ pc[c] = "done"
                          /\ HasReason(finish_reason[c])

\* C11 witness: the sentinel was pulled with a task still in the queue, and
\* the run has received twice since
C11_Witness ==
    \E c \in Servers :
        \E i \in 1..Len(io[c]) :
            /\ io[c][i].op = "get" /\ io[c][i].kind = "Finished"
            /\ task_queue # <<>>
            /\ Len(io[c]) >= i + 4

\* A result message that has everything _result_from_json reads
WellFormedResult(m) ==
    /\ m.shape = "dict" /\ m.type = JStr("result")
    /\ isinstance(m.permuter, "int")
    /\ \/ isinstance(m.error, "str")
       \/ /\ m.error = Absent
          /\ isinstance(m.profiler, "dict")
          /\ isinstance(m.score, "int")
          /\ isinstance(m.hash, "str")
\* The result messages a run received
ResultsReceived(c) ==
    SelectSeq(io[c], LAMBDA e : e.op = "receive" /\ e.at = "recv" /\ e.ok
                                /\ WellFormedResult(e.plain))

\* C12: when a run has ended, however it ended, it has put one work-done
\* event for every result message it received, each for the descriptor of the
\* message and in the order of the messages, all before its terminal event.
C12_ResultsAreReported ==
    \A c \in Servers :
        pc[c] = "done" =>
            LET done == SelectSeq(Events(c), LAMBDA e : e.k = "WorkDone")
                res == ResultsReceived(c)
            IN /\ Len(done) = Len(res)
               /\ \A i \in 1..Len(done) : done[i].permuter = res[i].plain.permuter.n
               /\ Events(c)[Len(Events(c))].k = "Finished"

\* C12 witness of the case: a result flagged has_source was received, the
\* receive of its source failed, and the run ended
C12_Case ==
    \E c \in Servers :
        /\ pc[c] = "done"
        /\ Len(io[c]) >= 2
        /\ LET last == io[c][Len(io[c])]
               prev == io[c][Len(io[c]) - 1]
           IN /\ last.op = "receive" /\ last.at = "source" /\ ~last.ok
              /\ prev.op = "receive" /\ prev.ok /\ prev.plain = ResultWithSource
        /\ CountOf(Events(c), "WorkDone") = 0

\* C13: when a run has ended, no exception has left it and it has put
\* exactly one terminal event, also when a step of its finally block raised.
C13_NeverPropagates ==
    \A c \in Servers :
        pc[c] = "done" =>
            /\ ~Raised(raised[c])
            /\ CountOf(emitted[c], "Finished") = 1

\* C13 witness of the case: close raised in the finally block of a run that
\* had put its terminal event, and the exception left run
C13_Case ==
    \E c \in Servers :
        /\ pc[c] = "done"
        /\ raised[c] = Exc("OSError", "close")
        /\ CountOf(emitted[c], "Finished") = 1
        /\ sock[c] = "shut"

\* The sends and receives of the negotiation of a run, in order: those
\* after the placeholder receive and before the main loop
Negotiation(c) ==
    SelectSeq(io[c], LAMBDA e :
        \/ e.op = "send" /\ e.at \in {"placeholder", "caps"}
        \/ e.op = "receive" /\ e.at \in {"caps", "compile"})
\* The negotiation as C14 describes it, for n descriptors
ExpectedNegotiation(n) ==
    <<[op |-> "send", kind |-> "grant", arg |-> <<>>],
      [op |-> "receive", kind |-> "caps", arg |-> <<>>],
      [op |-> "send", kind |-> "meta", arg |-> [i \in 1..n |-> i - 1]]>>
    \o [k \in 1..(2 * n) |->
          [op |-> "send", kind |-> IF k % 2 = 1 THEN "source" ELSE "object",
           arg |-> <<(k - 1) \div 2>>]]
    \o <<[op |-> "receive", kind |-> "compile", arg |-> <<>>]>>
MatchesStep(e, x) ==
    /\ e.op = x.op
    /\ e.op = "send" => e.kind = x.kind /\ e.arg = x.arg
    /\ e.op = "receive" => e.at = x.kind

\* C14: the sends and receives of the negotiation are, as far as the run got,
\* the grant, the receive of the capabilities, the metadata of the N
\* descriptors in list order, source(0), object(0), ..., source(N-1),
\* object(N-1), the receive of the compile result; a send that raised is the
\* last of them; and a run that received the compile result made them all.
C14_NegotiationOrder ==
    \A c \in Servers :
        LET neg == Negotiation(c)
            want == ExpectedNegotiation(Len(permuters))
        IN /\ Len(neg) <= Len(want)
           /\ \A i \in 1..Len(neg) :
                 /\ MatchesStep(neg[i], want[i])
                 /\ (neg[i].op = "send" /\ ~neg[i].ok) => i = Len(neg)
           /\ pc[c] \in {"get", "recv", "source"} => Len(neg) = Len(want)

\* C14 witness: a run with two descriptors has entered the main loop
C14_Witness ==
    \E c \in Servers : pc[c] = "get" /\ Len(permuters) = 2 /\ Len(Negotiation(c)) = 8

\* C15: every element of the feedback queue carries the nickname of a server
\* a connection runs for; the events that carry the nickname of server c are
\* the events the connection of c put, in the order it put them; and they end
\* with its one terminal event exactly when its run has ended.
C15_TaggedInOrder ==
    /\ \A i \in 1..Len(feedback_queue) :
          \E c \in threads : feedback_queue[i][2] = nickname(c)
    /\ \A c \in Servers :
          /\ Events(c) = emitted[c]
          /\ CountOf(Events(c), "Finished") = (IF pc[c] = "done" THEN 1 ELSE 0)
          /\ pc[c] = "done" => Events(c)[Len(Events(c))].k = "Finished"

\* C15 witness: two runs have ended whose events alternate in the queue
C15_Witness ==
    /\ \A c \in Servers : pc[c] = "done" /\ Len(emitted[c]) >= 2
    /\ \E i, j, k, l \in 1..Len(feedback_queue) :
          /\ i < j /\ j < k /\ k < l
          /\ feedback_queue[i][2] = nickname("s1")
          /\ feedback_queue[j][2] = nickname("s2")
          /\ feedback_queue[k][2] = nickname("s1")
          /\ feedback_queue[l][2] = nickname("s2")

\* The tasks pulled so far by all runs, in the order of the pulls
ConsumedTasks == [i \in 1..Len(consumed) |-> consumed[i][2]]
\* The pulls of one run
ConsumedBy(c) == SelectSeq(consumed, LAMBDA x : x[1] = c)
\* The runs that sent the work message of a task
SendersOf(task) ==
    {c \in Servers : \E i \in 1..Len(io[c]) :
        /\ io[c][i].op = "send" /\ io[c][i].kind = "work"
        /\ io[c][i].arg = <<task.permuter, task.seed>>}
WorkSends(c) == SelectSeq(io[c], LAMBDA e : e.op = "send" /\ e.kind = "work")
SentinelPulls(c) == SelectSeq(ConsumedBy(c), LAMBDA x : IsSentinel(x[2]))

\* C16: the tasks pulled so far, in the order of the pulls, followed by the
\* tasks still queued, are the queue the connections were started on, so no
\* task was pulled twice or lost; the work message of a task was sent by the
\* run that pulled it and by no other, once; a run pulls at most one
\* sentinel, its sending side is stopped only when it pulled one, and a run
\* that pulled none is about to pull again whenever it has received the
\* answer to its last work message.
C16_EachTaskOnce ==
    /\ (ConsumedTasks \o task_queue) \in SharedTaskQueues
    /\ \A i \in 1..Len(consumed) :
          ~IsSentinel(consumed[i][2]) => SendersOf(consumed[i][2]) = {consumed[i][1]}
    /\ \A i \in 1..Len(task_queue) : SendersOf(task_queue[i]) = {}
    /\ \A c \in Servers :
          /\ Len(WorkSends(c)) + Len(SentinelPulls(c)) = Len(ConsumedBy(c))
          /\ Len(SentinelPulls(c)) <= 1
          /\ finished[c] => Len(SentinelPulls(c)) = 1
          /\ (Len(SentinelPulls(c)) = 0 /\ pc[c] = "recv") =>
                 io[c][Len(io[c])].op = "send" /\ io[c][Len(io[c])].kind = "work"

\* C16 witness: each of two runs pulled one of two sentinels, and one of them
\* pulled a work task that was queued between the two
C16_Witness ==
    /\ \A c \in Servers : Len(SentinelPulls(c)) = 1
    /\ \E i, j, k \in 1..Len(consumed) :
          /\ i < j /\ j < k
          /\ IsSentinel(consumed[i][2])
          /\ ~IsSentinel(consumed[j][2])
          /\ IsSentinel(consumed[k][2])

\* The number a byte string is in big-endian order
RECURSIVE BigEndian(_)
BigEndian(bytes) ==
    IF bytes = <<>> THEN 0
    ELSE 256 * BigEndian(SubSeq(bytes, 1, Len(bytes) - 1)) + bytes[Len(bytes)]

\* C17: every nonce given to the box is 24 bytes long, its last 8 bytes are
\* the counter in big-endian order and the bytes before them are zero.
C17_NonceIs24Bytes ==
    \A i \in 1..Len(encrypted) :
        LET nonce == encrypted[i].nonce
        IN /\ Len(nonce) = 24
           /\ BigEndian(SubSeq(nonce, Len(nonce) - 7, Len(nonce))) = encrypted[i].counter
           /\ \A j \in 1..(Len(nonce) - 8) : nonce[j] = 0

\* C17 witness of the case: a Port has packed the nonce of a send, and what
\* it gave to the box is the pad of ">24xQ" followed by the 8 bytes of Q
C17_Case ==
    /\ Len(encrypted) >= 3
    /\ \A i \in 1..Len(encrypted) :
          /\ Len(encrypted[i].nonce) = NoncePadLen + NonceCounterLen
          /\ BigEndian(encrypted[i].nonce) = encrypted[i].counter

\* The pulls, sends and JSON receives of the main loop of a run, in order
LoopOps(c) ==
    SelectSeq(io[c], LAMBDA e : e.at \in {"get", "recv"}
                                /\ e.op \in {"get", "send", "receive"})
\* The sentinel was pulled before step k of them
SentinelBefore(ops, k) ==
    \E j \in 1..(k - 1) : ops[j].op = "get" /\ ops[j].kind = "Finished"

\* C18: in the main loop a pull comes first or right after a JSON receive
\* and is followed at once by one send; a send comes right after a pull;
\* and, until the sentinel is pulled, a JSON receive comes right after a
\* send that succeeded.  So the work messages sent are never more than one
\* ahead of the loop messages received, and until the sentinel is pulled
\* never behind.
C18_StrictAlternation ==
    \A c \in Servers :
        LET ops == LoopOps(c)
            ahead == Len(WorkSends(c)) - LoopReceives(c)
        IN /\ \A k \in 1..Len(ops) :
                 /\ ops[k].op = "get" =>
                        /\ k = 1 \/ ops[k - 1].op = "receive"
                        /\ k < Len(ops) /\ ops[k + 1].op = "send"
                 /\ ops[k].op = "send" => k > 1 /\ ops[k - 1].op = "get"
                 /\ (ops[k].op = "receive" /\ ~SentinelBefore(ops, k)) =>
                        k > 1 /\ ops[k - 1].op = "send" /\ ops[k - 1].ok
           /\ ahead <= 1
           /\ ~SentinelBefore(ops, Len(ops) + 1) => ahead >= 0

\* C18 witness: a run that pulled no sentinel is in its third iteration,
\* one work message ahead
C18_Witness ==
    \E c \in Servers :
        /\ pc[c] = "recv" /\ ~finished[c]
        /\ Len(WorkSends(c)) = 3 /\ LoopReceives(c) = 2

\* The negotiation of a run succeeded: it reached the main loop
Entered(c) ==
    \/ pc[c] \in {"get", "recv", "source"}
    \/ \E i \in 1..Len(io[c]) : io[c][i].at \in {"get", "recv", "source"}
\* The need_work messages a run received
NeedWorkReceived(c) ==
    Len(SelectSeq(io[c], LAMBDA e : e.op = "receive" /\ e.at = "recv" /\ e.ok
                                    /\ e.plain.shape = "dict"
                                    /\ e.plain.type = JStr("need_work")))

\* C19: the request-more-work events a run has put are one if its
\* negotiation succeeded, none otherwise, plus one for every need_work
\* message it has received; so a run that reached the main loop and has not
\* pulled a task yet has put exactly one.
C19_RequestMoreWorkCount ==
    \A c \in Servers :
        /\ CountOf(emitted[c], "NeedMoreWork") =
              (IF Entered(c) THEN 1 ELSE 0) + NeedWorkReceived(c)
        /\ (Entered(c) /\ Pulled(c) = <<>>) => CountOf(emitted[c], "NeedMoreWork") = 1
        /\ Pulled(c) # <<>> => Entered(c)

\* C19 witness: a run has received two need_work messages
C19_Witness ==
    \E c \in Servers :
        NeedWorkReceived(c) = 2 /\ CountOf(emitted[c], "NeedMoreWork") = 3

\* The receive nonce of the Port of a run after its receive number i of the
\* history: the one its next receive presents, or the one the Port holds
ReceiveNonceAfter(c, i) ==
    LET later == {j \in (i + 1)..Len(io[c]) : io[c][j].op = "receive"}
    IN IF later = {} THEN port[c].receive_nonce
       ELSE io[c][CHOOSE j \in later : \A k \in later : j <= k].nonce

\* C20: a receive that succeeded leaves the receive nonce 2 higher, a receive
\* that failed (the stream ended inside the frame, or the frame did not
\* decrypt) leaves it as it was; the send nonce is what the sends alone made
\* of it, and the receive nonce what the receives alone made of it.
C20_ReceiveNonceFrame ==
    \A c \in Servers :
        /\ \A i \in 1..Len(io[c]) :
              io[c][i].op = "receive" =>
                  ReceiveNonceAfter(c, i) =
                      io[c][i].nonce + (IF io[c][i].ok THEN NonceStep ELSE 0)
        /\ \A k \in 1..Len(IOsOf(c, "send")) :
              IOsOf(c, "send")[k].nonce = Port_init(TRUE).send_nonce + NonceStep * (k - 1)
        /\ port[c] # NoPort =>
              /\ port[c].send_nonce =
                    Port_init(TRUE).send_nonce + NonceStep * Len(IOsOf(c, "send"))
              /\ IOsOf(c, "receive") = <<>> =>
                    port[c].receive_nonce = Port_init(TRUE).receive_nonce
              /\ IOsOf(c, "receive") # <<>> =>
                    IOsOf(c, "receive")[1].nonce = Port_init(TRUE).receive_nonce

\* C20 witness of the case: a frame arrived in full and did not decrypt, and
\* the Port holds a receive nonce 2 higher than the one it presented
C20_Case ==
    \E c \in Servers :
        /\ Len(io[c]) > 0
        /\ LET last == io[c][Len(io[c])]
           IN /\ last.op = "receive" /\ last.kind = "garbled"
              /\ port[c].receive_nonce = last.nonce + NonceStep

====
